---------------------------- MODULE Spec2Model ----------------------------
(***************************************************************************)
(* Model of the Fire compiler front end (src/src/main.cpp): the Tokenizer  *)
(* (tokenize and its sub-scans), the Token small-string storage, the code  *)
(* generator Tokenizer::to_asm and AsmBuilder::generate_assembly.          *)
(*                                                                         *)
(* Characters are byte values (0..255); a C++ string is a sequence of      *)
(* bytes.  The cursor `pos` is 0-based as in the source, so the character  *)
(* under the cursor is input[pos + 1].                                     *)
(***************************************************************************)
EXTENDS Integers, Sequences, FiniteSets, TLC

VARIABLES
    entry,          \* "main": main() runs tokenize then to_asm; "to_asm": to_asm called on a caller's vector
    input,          \* Tokenizer::input
    pos,            \* Tokenizer::pos
    line,           \* Tokenizer::line
    column,         \* Tokenizer::column
    tokens,         \* the token vector (Tokenizer::tokens, then main's `tokens`)
    pc,             \* position in the code
    start,          \* handle_string: Position start
    str,            \* handle_string: std::string str
    startPos,       \* handle_number / identifier scan: size_t start
    start_col,      \* handle_number / identifier scan: size_t start_col
    diags,          \* what was written to std::cerr, in order
    i,              \* to_asm: loop index
    instructions,   \* to_asm: std::vector<AsmInstruction> instructions
    strings,        \* to_asm: std::vector<StringLiteral> strings
    string_count,   \* to_asm: size_t string_count
    code            \* AsmBuilder::code, the text written so far

vars == << entry, input, pos, line, column, tokens, pc, start, str, startPos,
           start_col, diags, i, instructions, strings, string_count, code >>

lexVars == << input, pos, line, column, start, str, startPos, start_col >>
asmVars == << i, instructions, strings, string_count >>

(***************************************************************************)
(* Bounds of the model.                                                    *)
(***************************************************************************)
MaxLen == 4
MaxToks == 4

(***************************************************************************)
(* Character constants of the source.                                      *)
(***************************************************************************)
NUL == 0
TAB == 9
NL == 10
QUOTE == 34
SLASH == 47
SEMI == 59
BACKSLASH == 92
UNDERSCORE == 95
CH_n == 110
CH_t == 116
CH_0 == 48
CH_9 == 57
SMALL_STRING_SIZE == 24

\* std::isspace in the "C" locale: space, \t, \n, \v, \f, \r.
isspace(c) == c \in {32, 9, 10, 11, 12, 13}

\* Tokenizer::is_digit
is_digit(c) == c >= CH_0 /\ c <= CH_9

\* std::isalpha / std::isalnum in the "C" locale.  A byte >= 128 is a negative
\* char, outside the domain the C standard gives these functions; the C
\* library's tables extend to -128 and hold no class for it, as for isspace.
isalpha(c) == (c >= 65 /\ c <= 90) \/ (c >= 97 /\ c <= 122)
isalnum(c) == isalpha(c) \/ (c >= 48 /\ c <= 57)

(***************************************************************************)
(* hash_keyword: 32-bit FNV-1a.  A 32-bit value is kept as two 16-bit      *)
(* halves <<hi, lo>>, so that all arithmetic is exact modulo 2^32.         *)
(***************************************************************************)
RECURSIVE Xor(_, _)
Xor(a, b) ==
    IF a = 0 THEN b
    ELSE IF b = 0 THEN a
    ELSE (((a % 2) + (b % 2)) % 2) + 2 * Xor(a \div 2, b \div 2)

\* 2166136261 = 0x811C9DC5
FNV_OFFSET_HI == 33052
FNV_OFFSET_LO == 40389
\* 16777619 = 2^24 + 403
FNV_PRIME_LOW == 403

\* hash ^= c (c a non-negative char: only the low half changes)
HashXor(h, c) == << h[1], Xor(h[2], c) >>

\* hash *= 16777619 (mod 2^32)
HashMul(h) ==
    LET a == h[2] * FNV_PRIME_LOW
    IN  << ((h[1] * FNV_PRIME_LOW) + (a \div 65536) + ((h[2] % 256) * 256)) % 65536,
           a % 65536 >>

RECURSIVE HashFrom(_, _)
HashFrom(h, s) ==
    IF s = << >> THEN h
    ELSE HashFrom(HashMul(HashXor(h, Head(s))), Tail(s))

hash_keyword(s) == HashFrom(<< FNV_OFFSET_HI, FNV_OFFSET_LO >>, s)

\* the bytes of "return"
KW_RETURN == << 114, 101, 116, 117, 114, 110 >>

get_keyword_type(word) ==
    IF hash_keyword(word) = hash_keyword(KW_RETURN) THEN "_return" ELSE "identifier"

(***************************************************************************)
(* Position and Token.                                                     *)
(***************************************************************************)
Position(l, c) == [line |-> l, column |-> c]

\* The bytes of a C string: everything before the first zero byte.
RECURSIVE CStr(_)
CStr(s) ==
    IF s = << >> \/ Head(s) = NUL THEN << >> ELSE << Head(s) >> \o CStr(Tail(s))

\* Token::Token(TokenType, std::string_view, Position): fewer than
\* SMALL_STRING_SIZE bytes are copied into value.small and zero-terminated
\* (the bytes after the terminator are never read); otherwise the bytes go to
\* a heap std::string.
Token(t, v, p) ==
    IF Len(v) < SMALL_STRING_SIZE
    THEN [type |-> t, is_small |-> TRUE,  value |-> v \o << NUL >>, pos |-> p]
    ELSE [type |-> t, is_small |-> FALSE, value |-> v, pos |-> p]

\* Token::get_value
get_value(tok) == IF tok.is_small THEN CStr(tok.value) ELSE tok.value

(***************************************************************************)
(* The source buffers examined: every byte sequence of at most MaxLen      *)
(* bytes over Alphabet, and the programs below.                            *)
(***************************************************************************)
\* NUL, newline, space, quote, slash, '1', ';', backslash, 'a'
Alphabet == { NUL, NL, 32, QUOTE, SLASH, 49, SEMI, BACKSLASH, 97 }

ShortSources == UNION { [1..n -> Alphabet] : n \in 0..MaxLen }

\* return 42;
SRC_return_42 ==
    << 114, 101, 116, 117, 114, 110, 32, 52, 50, 59 >>
\* return "Hi";
SRC_return_Hi ==
    << 114, 101, 116, 117, 114, 110, 32, 34, 72, 105, 34, 59 >>
\* return;
SRC_return_semi ==
    << 114, 101, 116, 117, 114, 110, 59 >>
\* "a\nb\tc\"d\\e"   (backslash escapes spelled out in the source text)
SRC_escapes ==
    << 34, 97, 92, 110, 98, 92, 116, 99, 92, 34, 100, 92, 92, 101, 34 >>
\* "unterminated
SRC_unterminated ==
    << 34, 117, 110, 116, 101, 114, 109, 105, 110, 97, 116, 101, 100 >>
\* return "hi";return "hi";
SRC_two_hi ==
    << 114, 101, 116, 117, 114, 110, 32, 34, 104, 105, 34, 59,
       114, 101, 116, 117, 114, 110, 32, 34, 104, 105, 34, 59 >>
\* a string literal of 24 bytes (heap storage)
SRC_str24 ==
    << 34, 97, 97, 97, 97, 97, 97, 97, 97, 97, 97, 97, 97, 97, 97, 97, 97, 97,
       97, 97, 97, 97, 97, 97, 97, 34 >>
\* a string literal of 23 bytes (the longest kept inline)
SRC_str23 ==
    << 34, 97, 97, 97, 97, 97, 97, 97, 97, 97, 97, 97, 97, 97, 97, 97, 97, 97,
       97, 97, 97, 97, 97, 97, 34 >>
\* an opening quote, 23 bytes and a backslash, then the end of the input
SRC_str23_bs ==
    << 34, 97, 97, 97, 97, 97, 97, 97, 97, 97, 97, 97, 97, 97, 97, 97, 97, 97,
       97, 97, 97, 97, 97, 97, 92 >>
\* "ab<newline>;x
SRC_unterm_then ==
    << 34, 97, 98, 10, 59, 120 >>

\* bytes above 127 (negative chars): before an identifier and inside a literal
SRC_high_bytes ==
    << 200, 97, 34, 200, 255, 34, 59 >>

\* return "<C3><A9>";   (the two bytes of a UTF-8 e-acute)
SRC_return_utf8 ==
    << 114, 101, 116, 117, 114, 110, 32, 34, 195, 169, 34, 59 >>

\* a94uFk 7;
SRC_a94uFk ==
    << 97, 57, 52, 117, 70, 107, 32, 55, 59 >>
\* Return returns return_ return42 return
SRC_words ==
    << 82, 101, 116, 117, 114, 110, 32, 114, 101, 116, 117, 114, 110, 115, 32,
       114, 101, 116, 117, 114, 110, 95, 32, 114, 101, 116, 117, 114, 110, 52,
       50, 32, 114, 101, 116, 117, 114, 110 >>
\* 123abc
SRC_123abc ==
    << 49, 50, 51, 97, 98, 99 >>

\* 1234567890123456789012345x   (a run of 25 digits, then a letter)
SRC_long_number ==
    << 49, 50, 51, 52, 53, 54, 55, 56, 57, 48, 49, 50, 51, 52, 53, 54, 55, 56,
       57, 48, 49, 50, 51, 52, 53, 120 >>

\* return"a" eleven times over
SRC_eleven_strings ==
    << 114, 101, 116, 117, 114, 110, 34, 97, 34, 114, 101, 116, 117, 114,
       110, 34, 97, 34, 114, 101, 116, 117, 114, 110, 34, 97, 34, 114, 101,
       116, 117, 114, 110, 34, 97, 34, 114, 101, 116, 117, 114, 110, 34, 97,
       34, 114, 101, 116, 117, 114, 110, 34, 97, 34, 114, 101, 116, 117, 114,
       110, 34, 97, 34, 114, 101, 116, 117, 114, 110, 34, 97, 34, 114, 101,
       116, 117, 114, 110, 34, 97, 34, 114, 101, 116, 117, 114, 110, 34, 97,
       34, 114, 101, 116, 117, 114, 110, 34, 97, 34 >>

Programs ==
    { SRC_eleven_strings, SRC_long_number, SRC_a94uFk, SRC_words, SRC_123abc, SRC_return_utf8, SRC_high_bytes, SRC_return_42, SRC_return_Hi, SRC_return_semi, SRC_escapes,
      SRC_unterminated, SRC_two_hi, SRC_str24, SRC_str23, SRC_str23_bs,
      SRC_unterm_then }

Sources == ShortSources \cup Programs

(***************************************************************************)
(* Tokenizer: cursor primitives.                                           *)
(***************************************************************************)
\* Tokenizer::length
length == Len(input)

\* Tokenizer::peek, at cursor p
PeekAt(p) == IF p < length THEN input[p + 1] ELSE NUL
peek == PeekAt(pos)

\* advance without its pos++
AdvancePos_NoMove(p) == p

\* the cursor after Tokenizer::advance at cursor p
AdvancePos(p) == IF p < length THEN p + 1 ELSE p

\* Tokenizer::advance: column++, and pos++ when a character is left
advance ==
    /\ column' = column + 1
    /\ pos' = AdvancePos(pos)

\* Token::Token(Token&&): the inline buffer is copied whole; the heap string
\* is taken over
MoveConstruct(other) ==
    IF other.is_small
    THEN [type |-> other.type, is_small |-> TRUE,
          value |-> [k \in 1..Len(other.value) |-> other.value[k]],
          pos |-> other.pos]
    ELSE [type |-> other.type, is_small |-> FALSE, value |-> other.value,
          pos |-> other.pos]

\* the capacity of a vector of n elements that started with capacity cap and
\* grew by doubling
RECURSIVE Grow(_, _)
Grow(cap, n) ==
    IF n <= cap THEN cap ELSE Grow(IF cap = 0 THEN 1 ELSE 2 * cap, n)

\* tokens.capacity(): reserve_tokens(source.length() / 5), then growth
capacity == Grow(length \div 5, Len(tokens))

\* tokens.emplace_back(t, v, p): the token is constructed in place; when the
\* vector is full its tokens are first move-constructed into a larger buffer
emplace_back(t, v, p) ==
    tokens' = Append(IF Len(tokens) = capacity
                     THEN [k \in 1..Len(tokens) |-> MoveConstruct(tokens[k])]
                     ELSE tokens,
                     Token(t, v, p))

cerr(d) == diags' = Append(diags, d)

\* input.data() + from, of n bytes
Slice(from, n) == SubSeq(input, from + 1, from + n)

(***************************************************************************)
(* Tokenizer::tokenize: the main loop.                                     *)
(***************************************************************************)
\* while (pos < length): enter the body, or leave the loop
TokenizeLoop ==
    /\ pc = "tokenize"
    /\ pc' = IF pos < length THEN "skip_ws" ELSE "eof"
    /\ UNCHANGED << entry, code, lexVars, tokens, diags, asmVars >>

\* SkipSpace without the line++ of a newline
SkipSpace_NoLineIncrement ==
    /\ pc = "skip_ws"
    /\ pos < length
    /\ isspace(input[pos + 1])
    /\ line' = line
    /\ column' = IF input[pos + 1] = NL THEN 1 ELSE column + 1
    /\ pos' = pos + 1
    /\ UNCHANGED << entry, code, input, tokens, pc, start, str, startPos, start_col,
                    diags, asmVars >>

\* skip_whitespace_and_comments: one whitespace character
SkipSpace ==
    /\ pc = "skip_ws"
    /\ pos < length
    /\ isspace(input[pos + 1])
    /\ IF input[pos + 1] = NL
       THEN line' = line + 1 /\ column' = 1
       ELSE line' = line /\ column' = column + 1
    /\ pos' = pos + 1
    /\ UNCHANGED << entry, code, input, tokens, pc, start, str, startPos, start_col,
                    diags, asmVars >>

\* AtComment taking a single slash for the start of a comment
AtComment_SingleSlash ==
    /\ pos < length
    /\ input[pos + 1] = SLASH

AtComment ==
    /\ pos + 1 < length
    /\ input[pos + 1] = SLASH
    /\ input[pos + 2] = SLASH

\* skip_whitespace_and_comments: a comment starts, skip_comment is called
SkipCommentEnter ==
    /\ pc = "skip_ws"
    /\ pos < length
    /\ ~isspace(input[pos + 1])
    /\ AtComment
    /\ pc' = "skip_comment"
    /\ UNCHANGED << entry, code, lexVars, tokens, diags, asmVars >>

\* skip_comment: one character of the comment
SkipCommentStep ==
    /\ pc = "skip_comment"
    /\ pos < length
    /\ input[pos + 1] # NL
    /\ advance
    /\ UNCHANGED << entry, code, input, line, tokens, pc, start, str, startPos,
                    start_col, diags, asmVars >>

\* skip_comment returns at a newline or at the end of the input
SkipCommentExit ==
    /\ pc = "skip_comment"
    /\ ~(pos < length /\ input[pos + 1] # NL)
    /\ pc' = "skip_ws"
    /\ UNCHANGED << entry, code, lexVars, tokens, diags, asmVars >>

\* skip_whitespace_and_comments returns
SkipWsExit ==
    /\ pc = "skip_ws"
    /\ \/ pos >= length
       \/ pos < length /\ ~isspace(input[pos + 1]) /\ ~AtComment
    /\ pc' = "dispatch"
    /\ UNCHANGED << entry, code, lexVars, tokens, diags, asmVars >>

\* if (pos >= length) break;
DispatchBreak ==
    /\ pc = "dispatch"
    /\ pos >= length
    /\ pc' = "eof"
    /\ UNCHANGED << entry, code, lexVars, tokens, diags, asmVars >>

\* c == '"': handle_string starts and skips the opening quote
DispatchString ==
    /\ pc = "dispatch"
    /\ pos < length
    /\ peek = QUOTE
    /\ start' = Position(line, column)
    /\ advance
    /\ str' = << >>
    /\ pc' = "handle_string"
    /\ UNCHANGED << entry, code, input, line, tokens, startPos, start_col, diags, asmVars >>

\* is_digit(c): handle_number starts
DispatchNumber ==
    /\ pc = "dispatch"
    /\ pos < length
    /\ peek # QUOTE
    /\ is_digit(peek)
    /\ startPos' = pos
    /\ start_col' = column
    /\ pc' = "handle_number"
    /\ UNCHANGED << entry, code, input, pos, line, column, tokens, start, str, diags, asmVars >>

\* c == ';'
DispatchSemi ==
    /\ pc = "dispatch"
    /\ pos < length
    /\ peek = SEMI
    /\ emplace_back("semi", << SEMI >>, Position(line, column))
    /\ advance
    /\ pc' = "tokenize"
    /\ UNCHANGED << entry, code, input, line, start, str, startPos, start_col, diags, asmVars >>

\* std::isalpha(c): the identifier scan starts
DispatchIdent ==
    /\ pc = "dispatch"
    /\ pos < length
    /\ peek # QUOTE /\ ~is_digit(peek) /\ peek # SEMI
    /\ isalpha(peek)
    /\ startPos' = pos
    /\ start_col' = column
    /\ pc' = "ident"
    /\ UNCHANGED << entry, code, input, pos, line, column, tokens, start, str, diags, asmVars >>

\* any other character
DispatchUnexpected ==
    /\ pc = "dispatch"
    /\ pos < length
    /\ peek # QUOTE /\ ~is_digit(peek) /\ peek # SEMI /\ ~isalpha(peek)
    /\ cerr([msg |-> "Unexpected character", line |-> line, column |-> column,
             ch |-> peek])
    /\ advance
    /\ pc' = "tokenize"
    /\ UNCHANGED << entry, code, input, line, tokens, start, str, startPos, start_col, asmVars >>

(***************************************************************************)
(* Tokenizer::handle_number and the identifier / keyword scan.             *)
(***************************************************************************)
NumberStep ==
    /\ pc = "handle_number"
    /\ pos < length /\ is_digit(input[pos + 1])
    /\ advance
    /\ UNCHANGED << entry, code, input, line, tokens, pc, start, str, startPos,
                    start_col, diags, asmVars >>

NumberExit ==
    /\ pc = "handle_number"
    /\ ~(pos < length /\ is_digit(input[pos + 1]))
    /\ emplace_back("int_lit", Slice(startPos, pos - startPos),
                    Position(line, start_col))
    /\ pc' = "tokenize"
    /\ UNCHANGED << entry, code, lexVars, diags, asmVars >>

\* IdentChar without the digits
IdentChar_LettersOnly(c) == isalpha(c) \/ c = UNDERSCORE

IdentChar(c) == isalnum(c) \/ c = UNDERSCORE

IdentStep ==
    /\ pc = "ident"
    /\ pos < length /\ IdentChar(input[pos + 1])
    /\ advance
    /\ UNCHANGED << entry, code, input, line, tokens, pc, start, str, startPos,
                    start_col, diags, asmVars >>

\* the scan loop's condition is false
IdentEnds == pc = "ident" /\ ~(pos < length /\ IdentChar(input[pos + 1]))

IdentExit ==
    /\ IdentEnds
    /\ LET word == Slice(startPos, pos - startPos)
       IN  emplace_back(get_keyword_type(word), word, Position(line, start_col))
    /\ pc' = "tokenize"
    /\ UNCHANGED << entry, code, lexVars, diags, asmVars >>

(***************************************************************************)
(* Tokenizer::handle_string: one action per path through the loop body,    *)
(* and one per way out of the loop.                                        *)
(***************************************************************************)
\* the character an escape stands for (the switch on the character after a
\* backslash)
Unescape(c) ==
    IF c = CH_n THEN NL
    ELSE IF c = CH_t THEN TAB
    ELSE IF c = QUOTE THEN QUOTE
    ELSE IF c = BACKSLASH THEN BACKSLASH
    ELSE c

InStringLoop == pc = "handle_string" /\ peek # QUOTE /\ peek # NUL

\* a newline inside the literal: diagnostic, Invalid token, return
StringNewline ==
    /\ InStringLoop
    /\ peek = NL
    /\ cerr([msg |-> "Unterminated string", line |-> line, column |-> column])
    /\ emplace_back("invalid", str, start)
    /\ pc' = "tokenize"
    /\ UNCHANGED << entry, code, lexVars, asmVars >>

\* a backslash: advance over it, decode the character now under the cursor,
\* advance again
StringEscape ==
    /\ InStringLoop
    /\ peek = BACKSLASH
    /\ str' = Append(str, Unescape(PeekAt(AdvancePos(pos))))
    /\ pos' = AdvancePos(AdvancePos(pos))
    /\ column' = column + 2
    /\ UNCHANGED << entry, code, input, line, tokens, pc, start, startPos, start_col,
                    diags, asmVars >>

\* any other character is copied
StringChar ==
    /\ InStringLoop
    /\ peek # NL /\ peek # BACKSLASH
    /\ str' = Append(str, peek)
    /\ advance
    /\ UNCHANGED << entry, code, input, line, tokens, pc, start, startPos, start_col,
                    diags, asmVars >>

\* the closing quote
StringClose ==
    /\ pc = "handle_string"
    /\ peek = QUOTE
    /\ advance
    /\ emplace_back("string_lit", str, start)
    /\ pc' = "tokenize"
    /\ UNCHANGED << entry, code, input, line, start, str, startPos, start_col, diags, asmVars >>

\* peek() == '\0': the end of the input (or a zero byte in it)
StringEnd ==
    /\ pc = "handle_string"
    /\ peek # QUOTE /\ peek = NUL
    /\ cerr([msg |-> "Unterminated string", line |-> line, column |-> column])
    /\ emplace_back("invalid", str, start)
    /\ pc' = "tokenize"
    /\ UNCHANGED << entry, code, lexVars, asmVars >>

\* tokens.emplace_back(TokenType::eof, "EOF", Position(line, column)); return
EmitEof ==
    /\ pc = "eof"
    /\ emplace_back("eof", << 69, 79, 70 >>, Position(line, column))
    /\ pc' = "to_asm"
    /\ UNCHANGED << entry, code, lexVars, diags, asmVars >>

(***************************************************************************)
(* Tokenizer::to_asm.  Operands are C++ strings, hence byte sequences.     *)
(***************************************************************************)
\* "rax", "rdi", "rsi", "rdx"
RAX == << 114, 97, 120 >>
RDI == << 114, 100, 105 >>
RSI == << 114, 115, 105 >>
RDX == << 114, 100, 120 >>
\* "str_"
STR_PREFIX == << 115, 116, 114, 95 >>
\* "60", "1", "0"
TXT_60 == << 54, 48 >>
TXT_1 == << 49 >>
TXT_0 == << 48 >>
\* "[" and "]"
LBRACKET == << 91 >>
RBRACKET == << 93 >>

\* std::to_string of a size_t: its decimal digits
RECURSIVE to_string(_)
to_string(n) ==
    IF n < 10 THEN << CH_0 + n >>
    ELSE to_string(n \div 10) \o << CH_0 + (n % 10) >>

\* AsmInstruction {op, operand1, operand2}; the strings member starts empty
AsmInstruction(op, a, b) ==
    [op |-> op, operand1 |-> a, operand2 |-> b, strings |-> << >>]

\* struct StringLiteral {label, value, length}
StringLiteral(label, value, len) ==
    [label |-> label, value |-> value, length |-> len]

\* ReturnIntCode with the exit code of the string case
ReturnIntCode_ExitZero(next) ==
    << AsmInstruction("mov", RAX, TXT_60),
       AsmInstruction("mov", RDI, TXT_0),
       AsmInstruction("syscall", << >>, << >>) >>

\* the three instructions pushed for `return <int_lit>`
ReturnIntCode(next) ==
    << AsmInstruction("mov", RAX, TXT_60),
       AsmInstruction("mov", RDI, get_value(next)),
       AsmInstruction("syscall", << >>, << >>) >>

\* StringLabel with the same label for every entry
StringLabel_Fixed(n) == STR_PREFIX \o to_string(0)

\* "str_" + std::to_string(string_count)
StringLabel(n) == STR_PREFIX \o to_string(n)

\* ReturnStringEntry with a length that counts a terminating zero byte
ReturnStringEntry_CountsTerminator(label, next) ==
    StringLiteral(label, get_value(next), Len(get_value(next)) + 1)

\* the entry pushed on `strings` for `return <string_lit>`
ReturnStringEntry(label, next) ==
    StringLiteral(label, get_value(next), Len(get_value(next)))

\* the eight instructions pushed for `return <string_lit>`
ReturnStringCode(label, next) ==
    << AsmInstruction("mov", RAX, TXT_1),
       AsmInstruction("mov", RDI, TXT_1),
       AsmInstruction("lea", RSI, LBRACKET \o label \o RBRACKET),
       AsmInstruction("mov", RDX, to_string(Len(get_value(next)))),
       AsmInstruction("syscall", << >>, << >>),
       AsmInstruction("mov", RAX, TXT_60),
       AsmInstruction("mov", RDI, TXT_0),
       AsmInstruction("syscall", << >>, << >>) >>

InAsmLoop == pc = "to_asm" /\ i < Len(tokens)
AtReturn == InAsmLoop /\ tokens[i + 1].type = "_return"
HasNext == i + 1 < Len(tokens)

\* case _return, next is an int_lit
AsmReturnInt ==
    /\ AtReturn /\ HasNext
    /\ tokens[i + 2].type = "int_lit"
    /\ instructions' = instructions \o ReturnIntCode(tokens[i + 2])
    /\ i' = i + 2
    /\ UNCHANGED << entry, code, lexVars, tokens, pc, diags, strings, string_count >>

\* case _return, next is a string_lit
AsmReturnString ==
    /\ AtReturn /\ HasNext
    /\ tokens[i + 2].type = "string_lit"
    /\ LET label == StringLabel(string_count)
       IN  /\ strings' = Append(strings, ReturnStringEntry(label, tokens[i + 2]))
           /\ instructions' = instructions \o ReturnStringCode(label, tokens[i + 2])
    /\ string_count' = string_count + 1
    /\ i' = i + 2
    /\ UNCHANGED << entry, code, lexVars, tokens, pc, diags >>

\* AsmReturnInvalid passing over the offending token as well
AsmReturnInvalid_SkipsNext ==
    /\ AtReturn /\ HasNext
    /\ tokens[i + 2].type \notin { "int_lit", "string_lit" }
    /\ cerr([msg |-> "Invalid return value",
             line |-> tokens[i + 2].pos.line, column |-> tokens[i + 2].pos.column])
    /\ i' = i + 2
    /\ UNCHANGED << entry, code, lexVars, tokens, pc, instructions, strings, string_count >>

\* case _return, next is anything else: the diagnostic names next's position
AsmReturnInvalid ==
    /\ AtReturn /\ HasNext
    /\ tokens[i + 2].type \notin { "int_lit", "string_lit" }
    /\ cerr([msg |-> "Invalid return value",
             line |-> tokens[i + 2].pos.line, column |-> tokens[i + 2].pos.column])
    /\ i' = i + 1
    /\ UNCHANGED << entry, code, lexVars, tokens, pc, instructions, strings, string_count >>

\* case _return, and i + 1 < tokens.size() is false: nothing is done
AsmReturnLast ==
    /\ AtReturn /\ ~HasNext
    /\ i' = i + 1
    /\ UNCHANGED << entry, code, lexVars, tokens, pc, diags, instructions, strings,
                    string_count >>

\* AsmSkip passing over two tokens
AsmSkip_SkipsTwo ==
    /\ InAsmLoop
    /\ tokens[i + 1].type # "_return"
    /\ i' = i + 2
    /\ UNCHANGED << entry, code, lexVars, tokens, pc, diags, instructions, strings,
                    string_count >>

\* default: the token is passed over
AsmSkip ==
    /\ InAsmLoop
    /\ tokens[i + 1].type # "_return"
    /\ i' = i + 1
    /\ UNCHANGED << entry, code, lexVars, tokens, pc, diags, instructions, strings,
                    string_count >>

\* after the loop: the strings are attached to the first instruction
AsmFinish ==
    /\ pc = "to_asm"
    /\ i >= Len(tokens)
    /\ instructions' =
          IF instructions # << >> /\ strings # << >>
          THEN [instructions EXCEPT ![1].strings = strings]
          ELSE instructions
    /\ pc' = "done"
    /\ UNCHANGED << entry, code, lexVars, tokens, diags, i, strings, string_count >>

(***************************************************************************)
(* AsmInstruction::to_string and AsmBuilder::generate_assembly.  The text  *)
(* written to the stream is a sequence of bytes.                           *)
(***************************************************************************)
\* "section .data\n"
TXT_section_data == << 115, 101, 99, 116, 105, 111, 110, 32, 46, 100, 97, 116, 97, 10 >>
\* "\nsection .text\n"
TXT_section_text == << 10, 115, 101, 99, 116, 105, 111, 110, 32, 46, 116, 101, 120, 116, 10 >>
\* "global _start\n"
TXT_global_start == << 103, 108, 111, 98, 97, 108, 32, 95, 115, 116, 97, 114, 116, 10 >>
\* "_start:\n"
TXT_start_label == << 95, 115, 116, 97, 114, 116, 58, 10 >>
\* ": db ", ", " and "\n"
TXT_db == << 58, 32, 100, 98, 32 >>
TXT_comma == << 44, 32 >>
TXT_nl == << NL >>
\* "    mov ", "    lea ", "    syscall", and the other mnemonics
TXT_mov == << 32, 32, 32, 32, 109, 111, 118, 32 >>
TXT_lea == << 32, 32, 32, 32, 108, 101, 97, 32 >>
TXT_syscall == << 32, 32, 32, 32, 115, 121, 115, 99, 97, 108, 108 >>
TXT_ret == << 32, 32, 32, 32, 114, 101, 116 >>
TXT_push == << 32, 32, 32, 32, 112, 117, 115, 104, 32 >>
TXT_pop == << 32, 32, 32, 32, 112, 111, 112, 32 >>
TXT_add == << 32, 32, 32, 32, 97, 100, 100, 32 >>
TXT_sub == << 32, 32, 32, 32, 115, 117, 98, 32 >>
TXT_invalid_instruction == << 59, 32, 105, 110, 118, 97, 108, 105, 100, 32, 105, 110, 115, 116, 114, 117, 99, 116, 105, 111, 110 >>
MINUS == 45

\* AsmInstruction::to_string
inst_to_string(inst) ==
    CASE inst.op = "mov" -> TXT_mov \o inst.operand1 \o TXT_comma \o inst.operand2
      [] inst.op = "ret" -> TXT_ret
      [] inst.op = "push" -> TXT_push \o inst.operand1
      [] inst.op = "pop" -> TXT_pop \o inst.operand1
      [] inst.op = "syscall" -> TXT_syscall
      [] inst.op = "add" -> TXT_add \o inst.operand1 \o TXT_comma \o inst.operand2
      [] inst.op = "sub" -> TXT_sub \o inst.operand1 \o TXT_comma \o inst.operand2
      [] inst.op = "lea" -> TXT_lea \o inst.operand1 \o TXT_comma \o inst.operand2
      [] OTHER -> TXT_invalid_instruction

\* static_cast<int>(c) of a char c: where char is a signed type, the bytes
\* from 128 on are the negative values
static_cast_int(c, char_is_signed) ==
    IF char_is_signed /\ c >= 128 THEN c - 256 ELSE c

\* code << n, for an int n
int_text(n) == IF n < 0 THEN << MINUS >> \o to_string(0 - n) ELSE to_string(n)

\* the loop over str.value, from index k (0-based) on
RECURSIVE db_items(_, _, _)
db_items(value, k, char_is_signed) ==
    IF ~(k < Len(value)) THEN << >>
    ELSE int_text(static_cast_int(value[k + 1], char_is_signed))
         \o (IF k < Len(value) - 1 THEN TXT_comma ELSE << >>)
         \o db_items(value, k + 1, char_is_signed)

\* one line of the data section
db_line(s, char_is_signed) ==
    s.label \o TXT_db \o db_items(s.value, 0, char_is_signed) \o TXT_nl

\* the lines of the entries k.. of the pool
RECURSIVE data_lines(_, _, _)
data_lines(pool, k, char_is_signed) ==
    IF k > Len(pool) THEN << >>
    ELSE db_line(pool[k], char_is_signed) \o data_lines(pool, k + 1, char_is_signed)

\* the lines of the instructions k..
RECURSIVE text_lines(_, _)
text_lines(insts, k) ==
    IF k > Len(insts) THEN << >>
    ELSE inst_to_string(insts[k]) \o TXT_nl \o text_lines(insts, k + 1)

\* what generate_assembly writes to the stream
generate_assembly(insts, char_is_signed) ==
    (IF insts # << >> /\ insts[1].strings # << >>
     THEN TXT_section_data \o data_lines(insts[1].strings, 1, char_is_signed)
     ELSE << >>)
    \o TXT_section_text \o TXT_global_start \o TXT_start_label
    \o text_lines(insts, 1)

\* builder.generate_assembly(instructions), after to_asm has returned; whether
\* char is signed is the build's choice
GenerateAssembly ==
    /\ pc = "done"
    /\ \E char_is_signed \in BOOLEAN :
          code' = code \o generate_assembly(instructions, char_is_signed)
    /\ pc' = "built"
    /\ UNCHANGED << entry, lexVars, tokens, diags, asmVars >>

(***************************************************************************)
(* The token vectors given to to_asm directly: every sequence of at most   *)
(* MaxToks tokens of the shapes below, the k-th at position 1:k.           *)
(***************************************************************************)
\* "42", "hi", "x", ";", "EOF"
TXT_42 == << 52, 50 >>
TXT_hi == << 104, 105 >>
TXT_x == << 120 >>
TXT_semi == << SEMI >>
TXT_EOF == << 69, 79, 70 >>
\* 24 bytes: a lexeme kept on the heap
TXT_long == [k \in 1..SMALL_STRING_SIZE |-> 97]

TokenShapes ==
    { << "_return", KW_RETURN >>, << "int_lit", TXT_42 >>,
      << "string_lit", TXT_hi >>, << "string_lit", TXT_long >>,
      << "identifier", TXT_x >>, << "semi", TXT_semi >>,
      << "eof", TXT_EOF >>, << "invalid", << >> >> }

\* the vector whose k-th token has shape f[k] and position 1:k
TokenVector(f, n) ==
    [k \in 1..n |-> Token(f[k][1], f[k][2], Position(1, k))]

(***************************************************************************)
(* Initial states and the next-state relation.                             *)
(***************************************************************************)
\* main(): a Tokenizer is constructed over the file's contents
InitMain ==
    /\ entry = "main"
    /\ input \in Sources
    /\ tokens = << >>
    /\ pc = "tokenize"

\* to_asm is called with a token vector of the caller's
InitToAsm ==
    /\ entry = "to_asm"
    /\ input = << >>
    /\ \E n \in 0..MaxToks : \E f \in [1..n -> TokenShapes] :
          tokens = TokenVector(f, n)
    /\ pc = "to_asm"

Init ==
    /\ InitMain \/ InitToAsm
    /\ pos = 0
    /\ line = 1
    /\ column = 1
    /\ start = Position(1, 1)
    /\ str = << >>
    /\ startPos = 0
    /\ start_col = 1
    /\ diags = << >>
    /\ i = 0
    /\ instructions = << >>
    /\ strings = << >>
    /\ string_count = 0
    /\ code = << >>

Next ==
    \/ TokenizeLoop
    \/ SkipSpace
    \/ SkipCommentEnter
    \/ SkipCommentStep
    \/ SkipCommentExit
    \/ SkipWsExit
    \/ DispatchBreak
    \/ DispatchString
    \/ DispatchNumber
    \/ DispatchSemi
    \/ DispatchIdent
    \/ DispatchUnexpected
    \/ NumberStep
    \/ NumberExit
    \/ IdentStep
    \/ IdentExit
    \/ StringNewline
    \/ StringEscape
    \/ StringChar
    \/ StringClose
    \/ StringEnd
    \/ EmitEof
    \/ AsmReturnInt
    \/ AsmReturnString
    \/ AsmReturnInvalid
    \/ AsmReturnLast
    \/ AsmSkip
    \/ AsmFinish
    \/ GenerateAssembly

Spec == Init /\ [][Next]_vars

(***************************************************************************)
(* Shorthands used by the properties.                                      *)
(***************************************************************************)
TokenizerPcs ==
    { "tokenize", "skip_ws", "skip_comment", "dispatch", "handle_string",
      "handle_number", "ident", "eof" }

\* tokenize has returned its vector to main
Tokenized == entry = "main" /\ pc \in { "to_asm", "done", "built" }

TypesOf(toks) == [k \in 1..Len(toks) |-> toks[k].type]
TextsOf(toks) == [k \in 1..Len(toks) |-> get_value(toks[k])]

\* a sub-scan loop whose condition is false at the cursor is about to return
\* without consuming anything; every other step of a sub-scan consumes
ScanReturns ==
    \/ pc = "skip_comment" /\ ~(pos < length /\ input[pos + 1] # NL)
    \/ pc = "handle_number" /\ ~(pos < length /\ is_digit(input[pos + 1]))
    \/ pc = "ident" /\ ~(pos < length /\ IdentChar(input[pos + 1]))
    \/ pc = "handle_string" /\ peek \in { NL, NUL }

\* how far the code is from its next consumed character, at an unchanged cursor
Rank ==
    IF ScanReturns THEN 7
    ELSE IF pc = "tokenize" THEN 6
    ELSE IF pc = "skip_ws" THEN 5
    ELSE IF pc = "dispatch" THEN 4
    ELSE IF pc = "eof" THEN 2
    ELSE 3

\* decreases with every step of tokenize: the characters left count most
Variant == IF pc \in TokenizerPcs THEN 8 * (length - pos) + Rank ELSE 0

(***************************************************************************)
(* C1: tokenize terminates on every input.  Every step of the main loop    *)
(* and of each sub-scan strictly decreases a natural-number variant (it    *)
(* consumes a character, or moves towards the next consumed character or   *)
(* the return); an iteration that stays inside a sub-scan advances the     *)
(* cursor; no step before the return is blocked; and the returned vector   *)
(* ends with an eof token and holds no other eof token.                    *)
(***************************************************************************)
C1_EofShape ==
    Tokenized =>
        /\ tokens # << >>
        /\ \A k \in 1..Len(tokens) : (tokens[k].type = "eof") <=> (k = Len(tokens))

\* the steps of tokenize other than IdentExit, which is enabled exactly when
\* IdentEnds holds (what it does is defined for every word)
LexStepNotIdentExit ==
    \/ TokenizeLoop \/ SkipSpace \/ SkipCommentEnter \/ SkipCommentStep
    \/ SkipCommentExit \/ SkipWsExit \/ DispatchBreak \/ DispatchString
    \/ DispatchNumber \/ DispatchSemi \/ DispatchIdent \/ DispatchUnexpected
    \/ NumberStep \/ NumberExit \/ IdentStep \/ StringNewline \/ StringEscape
    \/ StringChar \/ StringClose \/ StringEnd \/ EmitEof

C1_NotStuck ==
    (pc \in TokenizerPcs) =>
        /\ Variant > 0
        /\ IdentEnds \/ ENABLED LexStepNotIdentExit

\* C1: every step of tokenize decreases the variant, none is blocked before the
\* return, and the vector returned ends with its only eof token.
C1_TokenizeTerminates ==
    [][ /\ (pc \in TokenizerPcs) => (Variant > Variant')
        /\ (pc \in TokenizerPcs /\ pc' = pc) => (pos' > pos)
        /\ C1_NotStuck /\ C1_NotStuck'
        /\ C1_EofShape /\ C1_EofShape' ]_vars

\* an unterminated string, an escape at the end of the input and a comment
\* were all scanned to the end
C1_Witness ==
    /\ Tokenized
    /\ input \in { SRC_str23_bs, SRC_high_bytes, << QUOTE, 97, BACKSLASH >>,
                   << SLASH, SLASH, 97 >>, << >>, << QUOTE, BACKSLASH, NL, 97 >> }
    /\ tokens[Len(tokens)].type = "eof"

(***************************************************************************)
(* C2: string deduplication: the string pool never holds two entries with  *)
(* equal value, so two `return <string_lit>` matches with byte-identical   *)
(* content are interned once and reference the same label.                 *)
(***************************************************************************)
\* C2: no two entries of the string pool have equal value.
C2_PoolDeduplicated ==
    \A a, b \in 1..Len(strings) :
        strings[a].value = strings[b].value =>
            a = b /\ strings[a].label = strings[b].label

(***************************************************************************)
(* C3: a _return token immediately followed by an int_lit makes to_asm     *)
(* append exactly `mov rax, 60`, `mov rdi, <text of the literal>`,         *)
(* `syscall`, in this order, and pass over both tokens; nothing else       *)
(* changes.  `return 42;` lexes to _return, int_lit "42", semi, eof and    *)
(* yields exactly these three instructions.                                *)
(***************************************************************************)
C3_AtReturnInt == AtReturn /\ HasNext /\ tokens[i + 2].type = "int_lit"

C3_Step ==
    C3_AtReturnInt =>
        /\ instructions' =
              instructions \o
              << [op |-> "mov", operand1 |-> RAX, operand2 |-> TXT_60, strings |-> << >>],
                 [op |-> "mov", operand1 |-> RDI, operand2 |-> get_value(tokens[i + 2]),
                  strings |-> << >>],
                 [op |-> "syscall", operand1 |-> << >>, operand2 |-> << >>,
                  strings |-> << >>] >>
        /\ i' = i + 2
        /\ UNCHANGED << strings, string_count, diags, tokens >>

C3_Return42 ==
    (entry = "main" /\ input = SRC_return_42) =>
        /\ Tokenized =>
              /\ TypesOf(tokens) = << "_return", "int_lit", "semi", "eof" >>
              /\ TextsOf(tokens) = << KW_RETURN, TXT_42, TXT_semi, TXT_EOF >>
        /\ pc = "done" =>
              instructions =
              << [op |-> "mov", operand1 |-> RAX, operand2 |-> TXT_60, strings |-> << >>],
                 [op |-> "mov", operand1 |-> RDI, operand2 |-> TXT_42, strings |-> << >>],
                 [op |-> "syscall", operand1 |-> << >>, operand2 |-> << >>,
                  strings |-> << >>] >>

\* C3: _return + int_lit appends the three exit instructions and passes both
\* tokens; `return 42;` compiles to exactly them.
C3_ReturnInteger == [][C3_Step /\ C3_Return42 /\ C3_Return42']_vars

\* `return 42;` was compiled, and a vector with two integer returns was too
C3_Witness ==
    /\ pc = "done"
    /\ \/ input = SRC_return_42 /\ Len(instructions) = 3
       \/ entry = "to_asm" /\ Len(instructions) = 6 /\ Len(tokens) = 4

(***************************************************************************)
(* C4: a _return token immediately followed by a string_lit with text S    *)
(* makes to_asm append exactly `mov rax, 1`, `mov rdi, 1`,                 *)
(* `lea rsi, [L]`, `mov rdx, <decimal byte length of S>`, `syscall`,       *)
(* `mov rax, 60`, `mov rdi, 0`, `syscall`, and add a pool entry with label *)
(* L, value S and length the byte length of its value; from then on the    *)
(* pool keeps that entry.  `return "Hi";` yields the pool entry            *)
(* str_0 = "Hi" of length 2 and 8 instructions.                            *)
(***************************************************************************)
\* the number a sequence of decimal digits denotes
RECURSIVE DecimalValue(_)
DecimalValue(d) ==
    IF d = << >> THEN 0
    ELSE 10 * DecimalValue(SubSeq(d, 1, Len(d) - 1)) + (d[Len(d)] - CH_0)

IsDecimal(d) ==
    /\ d # << >>
    /\ \A k \in 1..Len(d) : is_digit(d[k])
    /\ Len(d) > 1 => d[1] # CH_0

C4_AtReturnString == AtReturn /\ HasNext /\ tokens[i + 2].type = "string_lit"

C4_Step ==
    C4_AtReturnString =>
        LET S == get_value(tokens[i + 2])
            added == SubSeq(instructions', Len(instructions) + 1, Len(instructions'))
            new == strings'[Len(strings')]
        IN  /\ Len(instructions') = Len(instructions) + 8
            /\ SubSeq(instructions', 1, Len(instructions)) = instructions
            /\ [k \in 1..8 |-> added[k].op] =
                  << "mov", "mov", "lea", "mov", "syscall", "mov", "mov", "syscall" >>
            /\ [k \in 1..8 |-> added[k].operand1] =
                  << RAX, RDI, RSI, RDX, << >>, RAX, RDI, << >> >>
            /\ added[1].operand2 = TXT_1 /\ added[2].operand2 = TXT_1
            /\ added[3].operand2 = LBRACKET \o new.label \o RBRACKET
            /\ IsDecimal(added[4].operand2)
            /\ DecimalValue(added[4].operand2) = Len(S)
            /\ added[5].operand2 = << >>
            /\ added[6].operand2 = TXT_60 /\ added[7].operand2 = TXT_0
            /\ added[8].operand2 = << >>
            /\ \A k \in 1..8 : added[k].strings = << >>
            /\ Len(strings') = Len(strings) + 1
            /\ SubSeq(strings', 1, Len(strings)) = strings
            /\ new.value = S
            /\ new.length = Len(new.value)
            /\ i' = i + 2
            /\ UNCHANGED << diags, tokens >>

\* the entries of the pool stay as they are, and the pool is what to_asm
\* returns with its first instruction
C4_PoolKept ==
    /\ \A k \in 1..Len(strings) : strings[k].length = Len(strings[k].value)
    /\ (pc = "done" /\ strings # << >>) => instructions[1].strings = strings

C4_ReturnHi ==
    (entry = "main" /\ input = SRC_return_Hi /\ pc = "done") =>
        /\ Len(instructions) = 8
        /\ instructions[1].strings =
              << [label |-> STR_PREFIX \o << CH_0 >>, value |-> << 72, 105 >>, length |-> 2] >>
        /\ instructions[3].operand2 = LBRACKET \o STR_PREFIX \o << CH_0 >> \o RBRACKET
        /\ instructions[4].operand2 = << CH_0 + 2 >>

\* C4: _return + string_lit appends the eight write / exit instructions and a
\* pool entry with the referenced label and the byte length of its value.
C4_ReturnString ==
    [][ /\ C4_Step
        /\ C4_PoolKept /\ C4_PoolKept'
        /\ C4_ReturnHi /\ C4_ReturnHi' ]_vars

\* `return "Hi";` was compiled, and so was a vector returning the 24-byte string
C4_Witness ==
    /\ pc = "done"
    /\ \/ input = SRC_return_Hi /\ Len(instructions) = 8
       \/ /\ entry = "to_asm"
          /\ \E k \in 1..Len(strings) : strings[k].length = SMALL_STRING_SIZE

(***************************************************************************)
(* C5: every _return token that is not immediately followed by an int_lit  *)
(* or string_lit produces exactly one "invalid return value" diagnostic,   *)
(* which cites the position of the following token when there is one and   *)
(* the position of the _return token itself when it is the last token.     *)
(***************************************************************************)
C5_AtBadReturn ==
    /\ AtReturn
    /\ ~(HasNext /\ tokens[i + 2].type \in { "int_lit", "string_lit" })

C5_Cited == IF HasNext THEN tokens[i + 2].pos ELSE tokens[i + 1].pos

\* C5: a _return without a literal after it writes exactly one diagnostic, at
\* the following token's position, or at its own when it is the last token.
C5_InvalidReturnDiagnosed ==
    [][ C5_AtBadReturn =>
          diags' = Append(diags, [msg |-> "Invalid return value",
                                  line |-> C5_Cited.line,
                                  column |-> C5_Cited.column]) ]_vars

(***************************************************************************)
(* C6: position monotonicity: in the vector built by tokenize, at every    *)
(* moment and in the vector returned (Invalid tokens and the trailing eof  *)
(* included), each token's position is lexicographically (line, column)    *)
(* at most that of the token after it.                                     *)
(***************************************************************************)
PosLeq(p, q) == p.line < q.line \/ (p.line = q.line /\ p.column <= q.column)

\* C6: token positions never decrease along the vector tokenize builds.
C6_PositionsMonotone ==
    entry = "main" =>
        \A a, b \in 1..Len(tokens) : a < b => PosLeq(tokens[a].pos, tokens[b].pos)

\* tokens on two lines, the later one at a smaller column, around an Invalid token
C6_Witness ==
    /\ Tokenized
    /\ \E a, b \in 1..Len(tokens) :
          /\ a < b
          /\ tokens[a].pos.line < tokens[b].pos.line
          /\ tokens[a].pos.column > tokens[b].pos.column
    /\ \E a \in 1..Len(tokens) : tokens[a].type = "invalid"

(***************************************************************************)
(* C7: line / column bookkeeping: at every point of the scan, line is 1    *)
(* plus the number of newlines consumed so far and column is 1 plus the    *)
(* number of characters consumed since the last consumed newline (so the   *)
(* column changes only when a character is consumed, and every consumed    *)
(* newline resets column to 1 and increments line).                        *)
(***************************************************************************)
Consumed == SubSeq(input, 1, pos)

NewlinesIn(s) == Cardinality({ k \in 1..Len(s) : s[k] = NL })

\* the characters of s after its last newline
SinceNewline(s) ==
    LET nls == { k \in 1..Len(s) : s[k] = NL }
    IN  IF nls = {} THEN Len(s)
        ELSE Len(s) - (CHOOSE k \in nls : \A m \in nls : m <= k)

\* C7: line and column are exactly those of the consumed prefix of the input.
C7_LineColumnExact ==
    entry = "main" =>
        /\ line = 1 + NewlinesIn(Consumed)
        /\ column = 1 + SinceNewline(Consumed)

(***************************************************************************)
(* C8: a string literal closed by a quote on the same line and holding no  *)
(* backslash is emitted as a string_lit token whose text, as get_value     *)
(* returns it, is exactly the bytes between the two quotes, whatever the   *)
(* bytes (the zero byte included) and the length.  Stated for the literal  *)
(* that opens the source.                                                  *)
(***************************************************************************)
\* the index of the first quote, newline or backslash after the opening quote
\* (0 when there is none)
FirstStop ==
    LET stops == { k \in 2..Len(input) : input[k] \in { QUOTE, NL, BACKSLASH } }
    IN  IF stops = {} THEN 0 ELSE CHOOSE k \in stops : \A m \in stops : k <= m

OpensWithPlainLiteral ==
    /\ Len(input) >= 2
    /\ input[1] = QUOTE
    /\ FirstStop # 0
    /\ input[FirstStop] = QUOTE

\* C8: the text of a closed literal without backslash is the bytes between its
\* quotes.
C8_PlainLiteralExact ==
    (Tokenized /\ OpensWithPlainLiteral) =>
        /\ tokens[1].type = "string_lit"
        /\ tokens[1].pos = Position(1, 1)
        /\ get_value(tokens[1]) = SubSeq(input, 2, FirstStop - 1)

(***************************************************************************)
(* C9: escape decoding: inside a string literal a backslash and the        *)
(* character after it are consumed as one unit that contributes exactly    *)
(* one character: newline for \n, tab for \t, a quote for \" (the literal  *)
(* stays open), a backslash for \\, and the character itself for any       *)
(* other; no diagnostic is raised; and the string_lit token emitted at the *)
(* closing quote has the decoded characters as its text.  The source       *)
(* "a\nb\tc\"d\\e" yields one string_lit with text a, newline, b, tab, c,  *)
(* quote, d, backslash, e.                                                 *)
(***************************************************************************)
C9_AtEscape == pc = "handle_string" /\ peek = BACKSLASH /\ pos + 1 < length

C9_Decoded(c) ==
    CASE c = CH_n -> NL
      [] c = CH_t -> TAB
      [] OTHER -> c

C9_EscapeStep ==
    C9_AtEscape =>
        /\ str' = str \o << C9_Decoded(input[pos + 2]) >>
        /\ pos' = pos + 2
        /\ pc' = "handle_string"
        /\ UNCHANGED << diags, tokens >>

C9_CloseStep ==
    (pc = "handle_string" /\ peek = QUOTE) =>
        /\ Len(tokens') = Len(tokens) + 1
        /\ tokens'[Len(tokens')].type = "string_lit"
        /\ get_value(tokens'[Len(tokens')]) = str

C9_Example ==
    (Tokenized /\ input = SRC_escapes) =>
        /\ TypesOf(tokens) = << "string_lit", "eof" >>
        /\ get_value(tokens[1]) =
              << 97, NL, 98, TAB, 99, QUOTE, 100, BACKSLASH, 101 >>
        /\ diags = << >>

\* C9: each escape contributes its one decoded character, and the closed
\* literal's token has the decoded characters as its text.
C9_EscapesDecoded ==
    [][C9_EscapeStep /\ C9_CloseStep /\ C9_Example /\ C9_Example']_vars

(***************************************************************************)
(* C10: unterminated string: when an unescaped newline or the end of the   *)
(* input is reached inside a literal, tokenize emits one Invalid token at  *)
(* the position of the opening quote carrying exactly the characters       *)
(* decoded so far, records one unterminated-string diagnostic, emits no    *)
(* string_lit, and goes on from the newline / the end of the input, so     *)
(* that later tokens have their correct text.  Stated for the literal that *)
(* opens the source, over sources that hold no zero byte.                  *)
(***************************************************************************)
\* what the escapes of s stand for; a backslash that ends s stands for nothing
RECURSIVE RefDecode(_)
RefDecode(s) ==
    IF s = << >> THEN << >>
    ELSE IF Head(s) # BACKSLASH THEN << Head(s) >> \o RefDecode(Tail(s))
    ELSE IF Len(s) = 1 THEN << >>
    ELSE << C9_Decoded(s[2]) >> \o RefDecode(SubSeq(s, 3, Len(s)))

NoZeroByte == \A k \in 1..Len(input) : input[k] # NUL

C10_AtUnterminated ==
    /\ pc = "handle_string"
    /\ start = Position(1, 1)
    /\ NoZeroByte
    /\ (pos < length /\ input[pos + 1] = NL) \/ pos >= length

C10_Step ==
    C10_AtUnterminated =>
        /\ Len(tokens') = Len(tokens) + 1
        /\ tokens'[Len(tokens')].type = "invalid"
        /\ tokens'[Len(tokens')].pos = Position(1, 1)
        /\ get_value(tokens'[Len(tokens')]) = RefDecode(SubSeq(input, 2, pos))
        /\ Len(diags') = Len(diags) + 1
        /\ diags'[Len(diags')].msg = "Unterminated string"
        /\ pos' = pos
        /\ pc' = "tokenize"

C10_Examples ==
    /\ (Tokenized /\ input = SRC_unterminated) =>
          /\ TypesOf(tokens) = << "invalid", "eof" >>
          /\ get_value(tokens[1]) = SubSeq(SRC_unterminated, 2, Len(SRC_unterminated))
          /\ Len(diags) = 1
    /\ (Tokenized /\ input = SRC_unterm_then) =>
          /\ TypesOf(tokens) = << "invalid", "semi", "identifier", "eof" >>
          /\ TextsOf(tokens) = << << 97, 98 >>, TXT_semi, TXT_x, TXT_EOF >>
          /\ Len(diags) = 1

\* C10: an unterminated literal gives one Invalid token with exactly the decoded
\* characters and one diagnostic, and lexing goes on from there.
C10_UnterminatedString == [][C10_Step /\ C10_Examples /\ C10_Examples']_vars

(***************************************************************************)
(* C11: unexpected character: when the character at a token start is not a *)
(* quote, an ASCII digit, `;`, an ASCII letter, whitespace or the start of *)
(* a comment, tokenize emits no token for it, records exactly one          *)
(* diagnostic tagged with the position of that character in the source     *)
(* (line: 1 plus the newlines before it; column: 1 plus the characters     *)
(* since the last of them), and moves the cursor by exactly one character; *)
(* the main loop then goes on with the rest of the input.                  *)
(***************************************************************************)
C11_AsciiLetter(c) == (c >= 65 /\ c <= 90) \/ (c >= 97 /\ c <= 122)

C11_AtUnexpected ==
    /\ pc = "dispatch"
    /\ pos < length
    /\ input[pos + 1] \notin { QUOTE, SEMI }
    /\ ~(input[pos + 1] >= 48 /\ input[pos + 1] <= 57)
    /\ ~C11_AsciiLetter(input[pos + 1])
    /\ input[pos + 1] \notin { 32, 9, 10, 11, 12, 13 }
    /\ ~(pos + 1 < length /\ input[pos + 1] = SLASH /\ input[pos + 2] = SLASH)

C11_Step ==
    C11_AtUnexpected =>
        /\ tokens' = tokens
        /\ Len(diags') = Len(diags) + 1
        /\ SubSeq(diags', 1, Len(diags)) = diags
        /\ diags'[Len(diags')].msg = "Unexpected character"
        /\ diags'[Len(diags')].ch = input[pos + 1]
        /\ diags'[Len(diags')].line = 1 + NewlinesIn(Consumed)
        /\ diags'[Len(diags')].column = 1 + SinceNewline(Consumed)
        /\ pos' = pos + 1
        /\ pc' = "tokenize"

\* C11: an unexpected character gives no token and one diagnostic at that
\* character's position, and the cursor moves past it by one.
C11_UnexpectedCharacter == [][C11_Step]_vars

(***************************************************************************)
(* C12: storage transparency: a token constructed with text v gives back   *)
(* exactly v from get_value, whatever the length (inline below 24 bytes,   *)
(* heap from 24 bytes on) and whatever the bytes of v, and keeps giving    *)
(* it back after the vector has moved it to a larger buffer.               *)
(***************************************************************************)
\* the text the token emitted by the current step is constructed with
C12_Text ==
    CASE pc = "handle_string" -> str
      [] pc \in { "handle_number", "ident" } -> SubSeq(input, startPos + 1, pos)
      [] pc = "dispatch" -> << SEMI >>
      [] pc = "eof" -> << 69, 79, 70 >>

C12_Step ==
    (Len(tokens') = Len(tokens) + 1) =>
        /\ get_value(tokens'[Len(tokens')]) = C12_Text
        /\ \A k \in 1..Len(tokens) :
              /\ get_value(tokens'[k]) = get_value(tokens[k])
              /\ tokens'[k].type = tokens[k].type
              /\ tokens'[k].pos = tokens[k].pos

\* C12: get_value of every token is the text it was constructed with, inline
\* or heap, also after a move.
C12_StorageRoundTrip == [][C12_Step]_vars

(***************************************************************************)
(* C13: data-section rendering: when the string pool is not empty, the     *)
(* text generate_assembly writes starts with a `section .data` line, then  *)
(* has one line per pool entry in insertion order, `<label>: db ` followed *)
(* by exactly `length` items separated by `, ` with no trailing comma,     *)
(* each item the decimal numeral (0..255) of the corresponding byte of the *)
(* string, and `section .text` comes after these lines.                    *)
(***************************************************************************)
\* the first index at which sep occurs in s (0 when it does not)
C13_IndexOf(s, sep) ==
    LET hits == { k \in 1..(Len(s) - Len(sep) + 1) :
                    SubSeq(s, k, k + Len(sep) - 1) = sep }
    IN  IF hits = {} THEN 0 ELSE CHOOSE k \in hits : \A m \in hits : k <= m

\* the pieces of s between the occurrences of sep
RECURSIVE C13_Split(_, _)
C13_Split(s, sep) ==
    LET k == C13_IndexOf(s, sep)
    IN  IF k = 0 THEN << s >>
        ELSE << SubSeq(s, 1, k - 1) >>
             \o C13_Split(SubSeq(s, k + Len(sep), Len(s)), sep)

\* the items of a comma-separated list (the empty text holds no item)
C13_Items(text) == IF text = << >> THEN << >> ELSE C13_Split(text, << 44, 32 >>)

\* line is `<label>: db ` followed by the decimal numerals of the bytes of s
C13_LineRenders(ln, s) ==
    LET pre == s.label \o << 58, 32, 100, 98, 32 >>
        items == C13_Items(SubSeq(ln, Len(pre) + 1, Len(ln)))
    IN  /\ Len(ln) >= Len(pre)
        /\ SubSeq(ln, 1, Len(pre)) = pre
        /\ Len(items) = s.length
        /\ \A j \in 1..Len(items) :
              /\ IsDecimal(items[j])
              /\ DecimalValue(items[j]) = s.value[j]
              /\ DecimalValue(items[j]) \in 0..255

\* C13: a non-empty pool is rendered as a data section before the text section,
\* one `label: db` line per entry with the decimal values of its bytes.
C13_DataSectionRendered ==
    (pc = "built" /\ strings # << >>) =>
        LET lines == C13_Split(code, << NL >>)
            n == Len(strings)
        IN  /\ Len(lines) >= n + 3
            /\ lines[1] = << 115, 101, 99, 116, 105, 111, 110, 32, 46, 100, 97, 116, 97 >>
            /\ \A k \in 1..n : C13_LineRenders(lines[k + 1], strings[k])
            /\ lines[n + 2] = << >>
            /\ lines[n + 3] = << 115, 101, 99, 116, 105, 111, 110, 32, 46, 116, 101, 120, 116 >>

(***************************************************************************)
(* C14: keyword classification: the word the identifier scan has collected *)
(* is emitted as a _return token if and only if its spelling is exactly    *)
(* the six characters `return`; every other spelling is emitted as an      *)
(* identifier token.                                                       *)
(***************************************************************************)
C14_Step ==
    IdentEnds =>
        /\ Len(tokens') = Len(tokens) + 1
        /\ tokens'[Len(tokens')].type =
              IF SubSeq(input, startPos + 1, pos) = << 114, 101, 116, 117, 114, 110 >>
              THEN "_return"
              ELSE "identifier"

\* C14: a scanned word is a _return token exactly when it is spelled `return`.
C14_KeywordClassification == [][C14_Step]_vars

(***************************************************************************)
(* C15: recovery after an invalid return: a _return token that is not      *)
(* immediately followed by an int_lit or string_lit appends no instruction *)
(* and no pool entry, and the scan resumes at the token right after that   *)
(* _return (the offending token is not passed over); so the vector         *)
(* [_return, _return, int_lit N] yields one diagnostic and exactly the     *)
(* three exit instructions for N.                                          *)
(***************************************************************************)
C15_AtInvalidReturn ==
    /\ pc = "to_asm" /\ i < Len(tokens)
    /\ tokens[i + 1].type = "_return"
    /\ \/ i + 2 > Len(tokens)
       \/ tokens[i + 2].type \notin { "int_lit", "string_lit" }

C15_Step ==
    C15_AtInvalidReturn =>
        /\ instructions' = instructions
        /\ strings' = strings
        /\ i' = i + 1
        /\ pc' = "to_asm"
        /\ tokens' = tokens

C15_Example ==
    ( /\ entry = "to_asm"
      /\ TypesOf(tokens) = << "_return", "_return", "int_lit" >>
      /\ pc \in { "done", "built" } ) =>
        /\ Len(diags) = 1
        /\ diags[1].msg = "Invalid return value"
        /\ Len(instructions) = 3
        /\ << instructions[1].op, instructions[1].operand1, instructions[1].operand2 >>
              = << "mov", RAX, TXT_60 >>
        /\ << instructions[2].op, instructions[2].operand1, instructions[2].operand2 >>
              = << "mov", RDI, get_value(tokens[3]) >>
        /\ instructions[3].op = "syscall"

\* C15: an invalid return appends nothing and the scan resumes at the very next
\* token; [_return, _return, int_lit] gives one diagnostic and three instructions.
C15_InvalidReturnRecovery == [][C15_Step /\ C15_Example /\ C15_Example']_vars

\* [_return, _return, int_lit] was compiled, and so was a source whose return
\* is followed by a semicolon
C15_Witness ==
    /\ pc = "done"
    /\ \/ /\ entry = "to_asm"
          /\ TypesOf(tokens) = << "_return", "_return", "int_lit" >>
          /\ Len(instructions) = 3
       \/ input = SRC_return_semi /\ Len(diags) = 1

(***************************************************************************)
(* C16: tokens outside a _return + literal match (identifier, semi,        *)
(* invalid, eof, and literals not preceded by _return) produce no          *)
(* instruction and no diagnostic; the instructions to_asm returns are, in  *)
(* the order of the matches in the vector, three per _return int_lit match *)
(* and eight per _return string_lit match, and nothing else.               *)
(***************************************************************************)
\* the indices k <= upto at which a _return is immediately followed by a
\* token of type t
C16_Matches(t, upto) ==
    { k \in 1..(Len(tokens) - 1) :
        k <= upto /\ tokens[k].type = "_return" /\ tokens[k + 1].type = t }

\* the mnemonics of the matches from index k on, in the order of the vector
RECURSIVE C16_Ops(_, _)
C16_Ops(k, upto) ==
    IF k > upto \/ k >= Len(tokens) THEN << >>
    ELSE IF tokens[k].type = "_return" /\ tokens[k + 1].type = "int_lit"
         THEN << "mov", "mov", "syscall" >> \o C16_Ops(k + 1, upto)
    ELSE IF tokens[k].type = "_return" /\ tokens[k + 1].type = "string_lit"
         THEN << "mov", "mov", "lea", "mov", "syscall", "mov", "mov", "syscall" >>
              \o C16_Ops(k + 1, upto)
    ELSE C16_Ops(k + 1, upto)

C16_Count ==
    (pc \in { "to_asm", "done", "built" }) =>
        /\ Len(instructions) = 3 * Cardinality(C16_Matches("int_lit", i))
                                + 8 * Cardinality(C16_Matches("string_lit", i))
        /\ [k \in 1..Len(instructions) |-> instructions[k].op] = C16_Ops(1, i)

C16_Step ==
    (pc = "to_asm" /\ i < Len(tokens) /\ tokens[i + 1].type # "_return") =>
        /\ instructions' = instructions
        /\ diags' = diags
        /\ strings' = strings
        /\ string_count' = string_count
        /\ i' = i + 1

\* C16: a token outside a match produces nothing, and the instructions are 3 per
\* integer match plus 8 per string match, in the order of the matches.
C16_OnlyMatchesEmit == [][C16_Step /\ C16_Count /\ C16_Count']_vars

\* an integer match and a string match were compiled from one vector, and a
\* vector with tokens outside any match was scanned to its end
C16_Witness ==
    /\ pc = "done"
    /\ entry = "to_asm"
    /\ \/ Len(instructions) = 11
       \/ /\ TypesOf(tokens) = << "int_lit", "_return", "string_lit", "invalid" >>
          /\ Len(instructions) = 8

(***************************************************************************)
(* C17: maximal munch: every int_lit token's text is a non-empty run of    *)
(* ASCII digits, the raw source text that ends at the cursor, and the      *)
(* source character right after it is not a digit; every _return or        *)
(* identifier token's text starts with a letter, consists of letters,      *)
(* digits and underscores only, is the raw source text that ends at the    *)
(* cursor, and the source character right after it is none of these.       *)
(* `123abc` lexes as int_lit 123, identifier abc; `return42` as one        *)
(* identifier.                                                             *)
(***************************************************************************)
C17_Digit(c) == c \in 48..57
C17_WordChar(c) == c \in (48..57) \cup (65..90) \cup (97..122) \cup { 95 }

\* the token the step has appended
C17_New == tokens'[Len(tokens')]

C17_NumberStep ==
    (pc = "handle_number" /\ pc' # pc) =>
        LET T == get_value(C17_New)
        IN  /\ Len(tokens') = Len(tokens) + 1
            /\ C17_New.type = "int_lit"
            /\ T # << >>
            /\ \A k \in 1..Len(T) : C17_Digit(T[k])
            /\ Len(T) <= pos
            /\ T = SubSeq(input, pos - Len(T) + 1, pos)
            /\ pos < Len(input) => ~C17_Digit(input[pos + 1])
            /\ pos' = pos

C17_WordStep ==
    (pc = "ident" /\ pc' # pc) =>
        LET T == get_value(C17_New)
        IN  /\ Len(tokens') = Len(tokens) + 1
            /\ C17_New.type \in { "_return", "identifier" }
            /\ T # << >>
            /\ T[1] \in (65..90) \cup (97..122)
            /\ \A k \in 1..Len(T) : C17_WordChar(T[k])
            /\ Len(T) <= pos
            /\ T = SubSeq(input, pos - Len(T) + 1, pos)
            /\ pos < Len(input) => ~C17_WordChar(input[pos + 1])
            /\ pos' = pos

\* the tokens of the vector have texts of their class
C17_Texts ==
    entry = "main" =>
        \A k \in 1..Len(tokens) :
            LET T == get_value(tokens[k])
            IN  /\ tokens[k].type = "int_lit" =>
                      T # << >> /\ \A j \in 1..Len(T) : C17_Digit(T[j])
                /\ tokens[k].type \in { "_return", "identifier" } =>
                      /\ T # << >>
                      /\ ~C17_Digit(T[1]) /\ T[1] # 95
                      /\ \A j \in 1..Len(T) : C17_WordChar(T[j])

C17_Examples ==
    /\ (Tokenized /\ input = SRC_123abc) =>
          /\ TypesOf(tokens) = << "int_lit", "identifier", "eof" >>
          /\ TextsOf(tokens) = << << 49, 50, 51 >>, << 97, 98, 99 >>, TXT_EOF >>
    /\ (Tokenized /\ input = SRC_words) =>
          /\ Len(tokens) = 6
          /\ tokens[4].type = "identifier"
          /\ get_value(tokens[4]) = << 114, 101, 116, 117, 114, 110, 52, 50 >>
    /\ (Tokenized /\ input = SRC_long_number) =>
          /\ TypesOf(tokens) = << "int_lit", "identifier", "eof" >>
          /\ get_value(tokens[1]) = SubSeq(SRC_long_number, 1, 25)

\* C17: number and word tokens are maximal runs of their character class, with
\* the raw source text as their text.
C17_MaximalMunch ==
    [][ /\ C17_NumberStep /\ C17_WordStep
        /\ C17_Texts /\ C17_Texts'
        /\ C17_Examples /\ C17_Examples' ]_vars

\* `123abc` and the 25-digit number were lexed
C17_Witness ==
    /\ Tokenized
    /\ input \in { SRC_123abc, SRC_long_number }
    /\ Len(tokens) = 3
    /\ tokens[1].type = "int_lit" /\ tokens[2].type = "identifier"

(***************************************************************************)
(* C18: string pool well-formedness: the i-th pool entry (0-based, in      *)
(* insertion order) has the label `str_i`, the labels are pairwise         *)
(* distinct, every `lea rsi, [label]` instruction references the label of  *)
(* a pool entry, and the pool is attached to the output once: when to_asm  *)
(* has returned only the first instruction carries a string list (the      *)
(* pool), and before that none does.                                       *)
(***************************************************************************)
C18_LabelIs(label, n) ==
    /\ Len(label) > 4
    /\ SubSeq(label, 1, 4) = << 115, 116, 114, 95 >>
    /\ IsDecimal(SubSeq(label, 5, Len(label)))
    /\ DecimalValue(SubSeq(label, 5, Len(label))) = n

C18_PoolWellFormed ==
    /\ \A k \in 1..Len(strings) : C18_LabelIs(strings[k].label, k - 1)
    /\ \A a, b \in 1..Len(strings) :
          a # b => strings[a].label # strings[b].label
    /\ \A k \in 1..Len(instructions) :
          instructions[k].op = "lea" =>
              /\ instructions[k].operand1 = << 114, 115, 105 >>
              /\ \E e \in 1..Len(strings) :
                    instructions[k].operand2 = << 91 >> \o strings[e].label \o << 93 >>

C18_AttachedOnce ==
    /\ \A k \in 2..Len(instructions) : instructions[k].strings = << >>
    /\ instructions # << >> =>
          instructions[1].strings =
              IF pc \in { "done", "built" } THEN strings ELSE << >>

\* C18: pool labels are str_0, str_1, ... and distinct, every lea names a pool
\* label, and only the first instruction carries the pool.
C18_StringPoolWellFormed == C18_PoolWellFormed /\ C18_AttachedOnce

\* two strings, and eleven strings (labels up to str_10), were compiled
C18_Witness ==
    /\ pc = "done"
    /\ \/ entry = "to_asm" /\ Len(strings) = 2 /\ Len(instructions) = 16
       \/ input = SRC_eleven_strings /\ Len(strings) = 11

(***************************************************************************)
(* C19: whitespace and comment skipping: the character at a token start is *)
(* never whitespace nor the start of a `//` comment; when the skipping     *)
(* cursor sees `//`, every character up to but not including the next      *)
(* newline (or up to the end of the input) is consumed without any token   *)
(* or diagnostic and without touching the line counter; the newline that   *)
(* follows is consumed as whitespace and advances the line counter; a `/`  *)
(* not followed by `/` is not a comment but an unexpected character.       *)
(***************************************************************************)
C19_Space(c) == c \in { 32, 9, 10, 11, 12, 13 }

C19_SeesComment ==
    pos + 2 <= Len(input) /\ input[pos + 1] = 47 /\ input[pos + 2] = 47

\* a token start is past all whitespace and comments
C19_TokenStart ==
    (pc = "dispatch" /\ pos < Len(input)) =>
        ~C19_Space(input[pos + 1]) /\ ~C19_SeesComment

C19_SkipStep ==
    /\ (pc = "skip_ws" /\ C19_SeesComment) =>
          pc' = "skip_comment" /\ pos' = pos /\ tokens' = tokens /\ diags' = diags
    /\ (pc = "skip_comment") =>
          /\ tokens' = tokens /\ diags' = diags /\ line' = line
          /\ IF pos < Len(input) /\ input[pos + 1] # 10
             THEN pos' = pos + 1 /\ pc' = "skip_comment"
             ELSE pos' = pos /\ pc' = "skip_ws"
    /\ (pc = "skip_ws" /\ pos < Len(input) /\ C19_Space(input[pos + 1])) =>
          /\ pos' = pos + 1 /\ pc' = "skip_ws"
          /\ tokens' = tokens /\ diags' = diags
          /\ line' = IF input[pos + 1] = 10 THEN line + 1 ELSE line

C19_SingleSlash ==
    /\ (pc = "skip_ws" /\ pos < Len(input) /\ input[pos + 1] = 47 /\ ~C19_SeesComment) =>
          pc' = "dispatch" /\ pos' = pos
    /\ (pc = "dispatch" /\ pos < Len(input) /\ input[pos + 1] = 47) =>
          /\ tokens' = tokens
          /\ Len(diags') = Len(diags) + 1
          /\ diags'[Len(diags')].msg = "Unexpected character"
          /\ diags'[Len(diags')].ch = 47
          /\ pos' = pos + 1

\* for a source that opens with a comment: nothing on its first line gives a
\* token or a diagnostic
C19_OpeningComment ==
    (Tokenized /\ Len(input) >= 2 /\ input[1] = 47 /\ input[2] = 47) =>
        IF \E k \in 1..Len(input) : input[k] = 10
        THEN /\ \A k \in 1..Len(tokens) : tokens[k].pos.line >= 2
             /\ \A k \in 1..Len(diags) : diags[k].line >= 2
        ELSE /\ TypesOf(tokens) = << "eof" >>
             /\ diags = << >>

\* C19: whitespace and `//` comments are skipped before each token without token
\* or diagnostic, the newline after a comment counts, a single `/` is unexpected.
C19_CommentsSkipped ==
    [][ /\ C19_SkipStep /\ C19_SingleSlash
        /\ C19_TokenStart /\ C19_TokenStart'
        /\ C19_OpeningComment /\ C19_OpeningComment' ]_vars

\* a comment, its newline and a token on the second line were lexed
C19_Witness ==
    /\ Tokenized
    /\ input = << 47, 47, 97, 10 >> \/ input = << 47, 47, 10, 59 >>
    /\ tokens[1].pos.line = 2
    /\ diags = << >>

====
